---- MODULE Spec2Model ----
(***************************************************************************)
(* Model of src/accessories/HumidifierAccessory.ts (homebridge-dreo).      *)
(* The file holds two variants of the HumidifierAccessory class; the       *)
(* variable `variant` says which one an instance is (1: lines 12-206,      *)
(* 2: lines 221-367).                                                      *)
(*                                                                         *)
(* JavaScript values that cross the boundary (snapshot fields, reported    *)
(* payload fields, HomeKit set values, control-call fields, values pushed  *)
(* to characteristics) are tagged records, so that Boolean() and Number()  *)
(* are real conversions.  Undef stands for `undefined` / an absent key.    *)
(***************************************************************************)
EXTENDS Integers, Sequences, FiniteSets

VARIABLES variant,          \* which class of the file the instance is
          on,               \* this.on
          currentHumidity,  \* this.currentHumidity
          targetHumidity,   \* this.targetHumidity
          mode,             \* this.mode
          humidifierState,  \* this.humidifierState (variant 1 only)
          pushed,           \* characteristic -> last value given to updateValue
          pushCount,        \* characteristic -> updateValue calls of the last operation
          calls,            \* webHelper.control payloads of the last operation, in order
          modeWriter,       \* which code place wrote this.mode last
          modeCalls,        \* {mode: 1} control calls since the last accepted report with a mode key
          deviceSaid,       \* what the device said last (snapshot, then accepted reports), per key
          raised,           \* the exception the last operation threw, "none" if it returned
          pc,               \* "returned": an operation has just run; "ready": none is recorded
          last              \* the operation that has just run, its input and the state it started in

vars == <<variant, on, currentHumidity, targetHumidity, mode, humidifierState,
          pushed, pushCount, calls, modeWriter, modeCalls, deviceSaid, raised,
          pc, last>>

----------------------------------------------------------------------------
(* JavaScript values *)

Undef   == [t |-> "undef", b |-> FALSE, n |-> 0]
Null    == [t |-> "null",  b |-> FALSE, n |-> 0]
Bool(x) == [t |-> "bool",  b |-> x,     n |-> 0]
Num(x)  == [t |-> "num",   b |-> FALSE, n |-> x]

\* Boolean(v)
ToBoolean(v) ==
    CASE v.t = "bool" -> v.b
      [] v.t = "num"  -> v.n # 0
      [] OTHER        -> FALSE

\* Number(v) for the values the model feeds it (no NaN-producing inputs)
ToNumber(v) ==
    CASE v.t = "num"  -> v.n
      [] v.t = "bool" -> (IF v.b THEN 1 ELSE 0)
      [] OTHER        -> 0

\* a ?? d
Coalesce(a, d) == IF a.t \in {"undef", "null"} THEN d ELSE a

Min(a, b) == IF a < b THEN a ELSE b
Max(a, b) == IF a > b THEN a ELSE b

----------------------------------------------------------------------------
(* Program constants *)

minHumidity == 30
maxHumidity == 90

INACTIVE    == 0
IDLE        == 1
HUMIDIFYING == 2

OwnSn   == "sn-A"
OtherSn == "sn-B"

Chars == {"Active", "CurrentRelativeHumidity", "TargetHumidity",
          "CurrentHumidifierDehumidifierState"}

CtlKeys == {"mode", "rhautolevel", "poweron"}

\* a control payload: absent fields are Undef
Ctl(m, r, p) == [mode |-> m, rhautolevel |-> r, poweron |-> p]

----------------------------------------------------------------------------
(* Inputs *)

\* the state snapshot handed to the constructor: field -> state.<field>?.state
Snapshots ==
    [poweron     : {Undef, Bool(TRUE), Bool(FALSE)},
     rh          : {Undef, Num(20)},
     rhautolevel : {Undef, Num(20)},
     mode        : {Undef, Num(0), Num(1), Num(2)},
     suspend     : {Undef, Bool(TRUE), Bool(FALSE)}]

NoSnapshot == [poweron |-> Undef, rh |-> Undef, rhautolevel |-> Undef,
               mode |-> Undef, suspend |-> Undef]

\* values HomeKit hands to setActive
ActiveInputs == {Bool(TRUE), Bool(FALSE), Num(0), Num(1)}

----------------------------------------------------------------------------
(* The cached fields as one record, for pure helpers and for history *)

Cache == [on |-> on, currentHumidity |-> currentHumidity,
          targetHumidity |-> targetHumidity, mode |-> mode,
          humidifierState |-> humidifierState,
          pushed |-> pushed]

NoPush   == [c \in Chars |-> Undef]
NoCount  == [c \in Chars |-> 0]

NoCache == [on |-> FALSE, currentHumidity |-> 0, targetHumidity |-> 0,
            mode |-> 0, humidifierState |-> 0, pushed |-> NoPush]

\* the payload keys the model sends; "ledlevel" is a key no variant handles
NoReported == [poweron |-> Undef, rh |-> Undef, rhautolevel |-> Undef,
               mode |-> Undef, suspend |-> Undef, ledlevel |-> Undef]

\* shape: "object" is JSON text of an object with a reported payload,
\* "noreported" of an object without one, "malformed" is text that is not JSON
NoMsg == [shape |-> "none", devicesn |-> "", method |-> "", reported |-> NoReported]

\* JavaScript truthiness of a value the device supplied
Truthy(x) == x = Bool(TRUE) \/ (x.t = "num" /\ x.n # 0)

\* Number() of a value the device supplied, by cases
AsNumber(x) == IF x.t = "num" THEN x.n ELSE IF x = Bool(TRUE) THEN 1 ELSE 0

\* the saturation point of the modeCalls counter
ModeCallCap == 3

\* the {mode: ...} calls among a sequence of control calls
CountModeCalls(seq) == Cardinality({i \in DOMAIN seq : seq[i].mode # Undef})

MoreModeCalls(n, seq) ==
    IF n + CountModeCalls(seq) > ModeCallCap THEN ModeCallCap
    ELSE n + CountModeCalls(seq)

Hist(op, value, twice, snap, msg, pre) ==
    [op |-> op, value |-> value, twice |-> twice, snap |-> snap,
     msg |-> msg, pre |-> pre]

NoHist == Hist("none", Undef, 0, NoSnapshot, NoMsg, NoCache)

----------------------------------------------------------------------------
(* Constructor: Init is the state right after `new HumidifierAccessory` *)

\* this.mode = Number(state.mode?.state ?? 1)
SnapMode(s) == ToNumber(Coalesce(s.mode, Num(1)))

\* lines 38-42 / 242-245: the device is put into auto mode if it is not
ConstructorCalls(s) ==
    IF SnapMode(s) # 1 THEN <<Ctl(Num(1), Undef, Undef)>> ELSE <<>>

ConstructorMode(s) == IF SnapMode(s) # 1 THEN 1 ELSE SnapMode(s)

\* this.humidifierState = Number(state.suspend?.state ?? IDLE); variant 2 has
\* no such field and the model keeps it at IDLE there
SnapHumidifierState(v, s) ==
    IF v = 1 THEN ToNumber(Coalesce(s.suspend, Num(IDLE))) ELSE IDLE

\* the updateValue calls of the constructor (variant 1 only)
ConstructorPushed(v, s) ==
    IF v = 1
    THEN [NoPush EXCEPT
            !["TargetHumidity"] = Num(ToNumber(Coalesce(s.rhautolevel, Num(50)))),
            !["CurrentHumidifierDehumidifierState"] = Num(SnapHumidifierState(v, s))]
    ELSE NoPush

ConstructorPushCount(v) ==
    IF v = 1
    THEN [NoCount EXCEPT !["TargetHumidity"] = 1,
                         !["CurrentHumidifierDehumidifierState"] = 1]
    ELSE NoCount

\* what the snapshot says per key, the constructor's default where it says
\* nothing; suspend is followed in the first variant only
SnapshotSaid(v, s) ==
    [on |-> (IF s.poweron \in {Undef, Null} THEN FALSE ELSE Truthy(s.poweron)),
     currentHumidity |-> (IF s.rh \in {Undef, Null} THEN 0 ELSE AsNumber(s.rh)),
     targetHumidity |-> (IF s.rhautolevel \in {Undef, Null} THEN 50
                         ELSE AsNumber(s.rhautolevel)),
     suspend |-> (IF v = 2 \/ s.suspend \in {Undef, Null} THEN TRUE
                  ELSE Truthy(s.suspend))]

Init ==
    \E v \in {1, 2}, s \in Snapshots :
        /\ variant = v
        /\ on = ToBoolean(Coalesce(s.poweron, Bool(FALSE)))
        /\ currentHumidity = ToNumber(Coalesce(s.rh, Num(0)))
        /\ targetHumidity = ToNumber(Coalesce(s.rhautolevel, Num(50)))
        /\ mode = ConstructorMode(s)
        /\ calls = ConstructorCalls(s)
        /\ humidifierState = SnapHumidifierState(v, s)
        /\ pushed = ConstructorPushed(v, s)
        /\ pushCount = ConstructorPushCount(v)
        /\ modeWriter = "constructor"
        /\ modeCalls = CountModeCalls(ConstructorCalls(s))
        /\ deviceSaid = SnapshotSaid(v, s)
        /\ raised = "none"
        /\ pc = "returned"
        /\ last = Hist("constructor", Undef, 0, s, NoMsg, NoCache)

----------------------------------------------------------------------------
(* setActive / getActive *)

getActive == on

\* setActive without the comparison against the cached on
SetActiveCallsAlways(cur, desired) == <<Ctl(Undef, Undef, Bool(desired))>>

SetActiveCalls(cur, desired) ==
    IF cur # desired THEN <<Ctl(Undef, Undef, Bool(desired))>> ELSE <<>>

\* setActive with an optimistic write of the cached on
setActiveOptimistic(value) ==
    LET desired == ToBoolean(value) IN
    /\ pc = "ready" /\ pc' = "returned"
    /\ calls' = SetActiveCalls(on, desired)
    /\ on' = desired
    /\ pushCount' = NoCount
    /\ last' = Hist("setActive", value, 0, NoSnapshot, NoMsg, Cache)
    /\ raised' = "none"
    /\ UNCHANGED <<variant, currentHumidity, targetHumidity, mode,
                   humidifierState, pushed, modeWriter, modeCalls, deviceSaid>>

setActive(value) ==
    LET desired == ToBoolean(value) IN
    /\ pc = "ready" /\ pc' = "returned"
    /\ calls' = SetActiveCalls(on, desired)
    /\ pushCount' = NoCount
    /\ last' = Hist("setActive", value, 0, NoSnapshot, NoMsg, Cache)
    /\ raised' = "none"
    /\ UNCHANGED <<variant, on, currentHumidity, targetHumidity, mode,
                   humidifierState, pushed, modeWriter, modeCalls, deviceSaid>>

----------------------------------------------------------------------------
(* setTargetRelativeHumidity / getTargetRelativeHumidity *)

\* The value handed to setTargetRelativeHumidity is a number with one binary
\* fraction digit, written as twice its value (twice = 59 is 29.5), so that
\* Math.round has something to round.
HumidityInputs == {-3, 59, 60, 101, 179, 180, 181, 240}

\* Math.round(Number(value)) for value = twice/2: floor(value + 0.5)
MathRound(twice) == (twice + 1) \div 2

\* line 160: Math.min(maxHumidity, Math.max(minHumidity, r))
ClampFirst(r) == Min(maxHumidity, Max(minHumidity, r))

\* the clamp with the characteristic's 0-100 range as its upper end
ClampSecondWideUpper(r) == Max(30, Min(100, r))

\* line 336: Math.max(30, Math.min(90, r))
ClampSecond(r) == Max(30, Min(90, r))

Hum(v, twice) ==
    IF v = 1 THEN ClampFirst(MathRound(twice)) ELSE ClampSecond(MathRound(twice))

\* the rhautolevel call without poweron in either variant
LevelCallNoPower(v, hum) == Ctl(Undef, Num(hum), Undef)

\* the control call that carries rhautolevel (variant 2 adds poweron: true)
LevelCall(v, hum) ==
    IF v = 1 THEN Ctl(Undef, Num(hum), Undef)
             ELSE Ctl(Undef, Num(hum), Bool(TRUE))

\* the mode switch with its test inverted
ModeCallsInverted(m) == IF m = 1 THEN <<Ctl(Num(1), Undef, Undef)>> ELSE <<>>

\* the mode switch without the test of the cached mode
ModeCallsAlways(m) == <<Ctl(Num(1), Undef, Undef)>>

\* the mode switch that precedes it when the cached mode is not auto
ModeCalls(m) == IF m # 1 THEN <<Ctl(Num(1), Undef, Undef)>> ELSE <<>>

getTargetRelativeHumidity == targetHumidity

getCurrentRelativeHumidity == currentHumidity

\* the setter with an optimistic write of the cached target
setTargetRelativeHumidityOptimistic(twice) ==
    LET hum == Hum(variant, twice) IN
    /\ pc = "ready" /\ pc' = "returned"
    /\ calls' = ModeCalls(mode) \o <<LevelCall(variant, hum)>>
    /\ modeCalls' = MoreModeCalls(modeCalls, ModeCalls(mode))
    /\ raised' = "none"
    /\ mode' = (IF mode # 1 THEN 1 ELSE mode)
    /\ modeWriter' = IF mode # 1 THEN "setTargetRelativeHumidity" ELSE modeWriter
    /\ targetHumidity' = hum
    /\ pushCount' = NoCount
    /\ last' = Hist("setTargetRelativeHumidity", Undef, twice, NoSnapshot, NoMsg, Cache)
    /\ UNCHANGED <<variant, on, currentHumidity, humidifierState, pushed,
                   deviceSaid>>

\* the setter without `this.mode = 1` after the mode switch
setTargetRelativeHumidityNoModeWrite(twice) ==
    LET hum == Hum(variant, twice) IN
    /\ pc = "ready" /\ pc' = "returned"
    /\ calls' = ModeCalls(mode) \o <<LevelCall(variant, hum)>>
    /\ modeCalls' = MoreModeCalls(modeCalls, ModeCalls(mode))
    /\ raised' = "none"
    /\ pushCount' = NoCount
    /\ last' = Hist("setTargetRelativeHumidity", Undef, twice, NoSnapshot, NoMsg, Cache)
    /\ UNCHANGED <<variant, on, currentHumidity, targetHumidity, mode, modeWriter,
                   humidifierState, pushed, deviceSaid>>

setTargetRelativeHumidity(twice) ==
    LET hum == Hum(variant, twice) IN
    /\ pc = "ready" /\ pc' = "returned"
    /\ calls' = ModeCalls(mode) \o <<LevelCall(variant, hum)>>
    /\ modeCalls' = MoreModeCalls(modeCalls, ModeCalls(mode))
    /\ raised' = "none"
    /\ mode' = (IF mode # 1 THEN 1 ELSE mode)
    /\ modeWriter' = IF mode # 1 THEN "setTargetRelativeHumidity" ELSE modeWriter
    /\ pushCount' = NoCount
    /\ last' = Hist("setTargetRelativeHumidity", Undef, twice, NoSnapshot, NoMsg, Cache)
    /\ UNCHANGED <<variant, on, currentHumidity, targetHumidity,
                   humidifierState, pushed, deviceSaid>>

----------------------------------------------------------------------------
(* getCurrentHumidifierDehumidifierState and the target-state pair *)

\* the getter with the power test of the second variant left out
CurrentStateOfNoPowerTest(v, c) ==
    IF v = 1
    THEN (IF ~c.on THEN INACTIVE
          ELSE IF c.humidifierState = 1 THEN IDLE ELSE HUMIDIFYING)
    ELSE (IF c.currentHumidity < c.targetHumidity THEN HUMIDIFYING ELSE IDLE)

\* the getter with <= for < in the second variant
CurrentStateOfInclusive(v, c) ==
    IF ~c.on THEN INACTIVE
    ELSE IF v = 1
         THEN (IF c.humidifierState = 1 THEN IDLE ELSE HUMIDIFYING)
         ELSE (IF c.currentHumidity <= c.targetHumidity THEN HUMIDIFYING ELSE IDLE)

CurrentStateOf(v, c) ==
    IF ~c.on THEN INACTIVE
    ELSE IF v = 1
         THEN (IF c.humidifierState = 1 THEN IDLE ELSE HUMIDIFYING)
         ELSE (IF c.currentHumidity < c.targetHumidity THEN HUMIDIFYING ELSE IDLE)

getCurrentHumidifierDehumidifierState == CurrentStateOf(variant, Cache)

HUMIDIFIER == 1

getTargetHumidifierDehumidifierState == HUMIDIFIER

setTargetHumidifierDehumidifierState ==
    /\ pc = "ready" /\ pc' = "returned"
    /\ calls' = <<>>
    /\ pushCount' = NoCount
    /\ last' = Hist("setTargetHumidifierDehumidifierState", Undef, 0, NoSnapshot, NoMsg, Cache)
    /\ raised' = "none"
    /\ UNCHANGED <<variant, on, currentHumidity, targetHumidity, mode,
                   humidifierState, pushed, modeWriter, modeCalls, deviceSaid>>

----------------------------------------------------------------------------
(* The 'message' listener *)

MaxKeys == 2

Keys == {"poweron", "rh", "rhautolevel", "mode", "suspend", "ledlevel"}

\* Object.keys(data.reported): the keys that are present.  The handlers of
\* different keys write different fields, so one fixed order stands for all.
KeyOrder == <<"poweron", "rh", "rhautolevel", "mode", "suspend", "ledlevel">>

Present(reported) == {k \in Keys : reported[k] # Undef}

Reporteds ==
    {r \in [poweron     : {Undef, Bool(TRUE), Bool(FALSE), Num(0)},
            rh          : {Undef, Num(70)},
            rhautolevel : {Undef, Num(95)},
            mode        : {Undef, Num(0), Num(1), Num(2)},
            suspend     : {Undef, Bool(TRUE), Bool(FALSE)},
            ledlevel    : {Undef, Num(1)}] :
        Cardinality(Present(r)) <= MaxKeys}

Methods == {"control-report", "control-reply", "report", "update"}

Messages ==
    [shape : {"object"}, devicesn : {OwnSn, OtherSn}, method : Methods,
     reported : Reporteds]
    \cup [shape : {"noreported"}, devicesn : {OwnSn, OtherSn}, method : Methods,
          reported : {NoReported}]
    \cup {[shape |-> "malformed", devicesn |-> "", method |-> "",
           reported |-> NoReported]}

\* the filter without the serial number test
AcceptedAnySn(msg) ==
    msg.method \in {"control-report", "control-reply", "report"}

\* lines 99-100 / 286-287
Accepted(msg) ==
    /\ msg.devicesn = OwnSn
    /\ msg.method \in {"control-report", "control-reply", "report"}

\* characteristic.updateValue(x)
Push(c, char, x) ==
    [c EXCEPT !.pushed[char] = x, !.pushCount[char] = @ + 1]

\* the switch with the updateValue of case 'poweron' left out
HandleKeyNoActivePush(v, c, key, val) ==
    CASE key = "poweron" -> [c EXCEPT !.on = ToBoolean(val)]
      [] key = "rh" ->
            Push([c EXCEPT !.currentHumidity = ToNumber(val)],
                 "CurrentRelativeHumidity", Num(ToNumber(val)))
      [] key = "rhautolevel" ->
            Push([c EXCEPT !.targetHumidity = ToNumber(val)],
                 "TargetHumidity", Num(ToNumber(val)))
      [] key = "mode" ->
            [c EXCEPT !.mode = ToNumber(val), !.modeWriter = "report"]
      [] key = "suspend" /\ v = 1 ->
            LET st == IF ToBoolean(val) THEN IDLE ELSE HUMIDIFYING IN
            Push([c EXCEPT !.humidifierState = st],
                 "CurrentHumidifierDehumidifierState", Num(st))
      [] OTHER -> c

\* the switch with case 'suspend' also present in the second variant
HandleKeySuspendEverywhere(v, c, key, val) ==
    CASE key = "poweron" ->
            Push([c EXCEPT !.on = ToBoolean(val)], "Active", Bool(ToBoolean(val)))
      [] key = "rh" ->
            Push([c EXCEPT !.currentHumidity = ToNumber(val)],
                 "CurrentRelativeHumidity", Num(ToNumber(val)))
      [] key = "rhautolevel" ->
            Push([c EXCEPT !.targetHumidity = ToNumber(val)],
                 "TargetHumidity", Num(ToNumber(val)))
      [] key = "mode" ->
            [c EXCEPT !.mode = ToNumber(val), !.modeWriter = "report"]
      [] key = "suspend" ->
            LET st == IF ToBoolean(val) THEN IDLE ELSE HUMIDIFYING IN
            Push([c EXCEPT !.humidifierState = st],
                 "CurrentHumidifierDehumidifierState", Num(st))
      [] OTHER -> c

\* the switch with case 'poweron' treating a truthy report as a toggle
HandleKeyToggle(v, c, key, val) ==
    CASE key = "poweron" ->
            LET b == IF ToBoolean(val) THEN ~c.on ELSE c.on IN
            Push([c EXCEPT !.on = b], "Active", Bool(b))
      [] key = "rh" ->
            Push([c EXCEPT !.currentHumidity = ToNumber(val)],
                 "CurrentRelativeHumidity", Num(ToNumber(val)))
      [] key = "rhautolevel" ->
            Push([c EXCEPT !.targetHumidity = ToNumber(val)],
                 "TargetHumidity", Num(ToNumber(val)))
      [] key = "mode" ->
            [c EXCEPT !.mode = ToNumber(val), !.modeWriter = "report"]
      [] key = "suspend" /\ v = 1 ->
            LET st == IF ToBoolean(val) THEN IDLE ELSE HUMIDIFYING IN
            Push([c EXCEPT !.humidifierState = st],
                 "CurrentHumidifierDehumidifierState", Num(st))
      [] OTHER -> c

\* the switch with case 'rh' calling updateValue before the assignment
HandleKeyPushBeforeWrite(v, c, key, val) ==
    CASE key = "poweron" ->
            Push([c EXCEPT !.on = ToBoolean(val)], "Active", Bool(ToBoolean(val)))
      [] key = "rh" ->
            Push([c EXCEPT !.currentHumidity = ToNumber(val)],
                 "CurrentRelativeHumidity", Num(c.currentHumidity))
      [] key = "rhautolevel" ->
            Push([c EXCEPT !.targetHumidity = ToNumber(val)],
                 "TargetHumidity", Num(ToNumber(val)))
      [] key = "mode" ->
            [c EXCEPT !.mode = ToNumber(val), !.modeWriter = "report"]
      [] key = "suspend" /\ v = 1 ->
            LET st == IF ToBoolean(val) THEN IDLE ELSE HUMIDIFYING IN
            Push([c EXCEPT !.humidifierState = st],
                 "CurrentHumidifierDehumidifierState", Num(st))
      [] OTHER -> c

\* one pass of the switch, lines 102-137 / 289-313
HandleKey(v, c, key, val) ==
    CASE key = "poweron" ->
            Push([c EXCEPT !.on = ToBoolean(val)], "Active", Bool(ToBoolean(val)))
      [] key = "rh" ->
            Push([c EXCEPT !.currentHumidity = ToNumber(val)],
                 "CurrentRelativeHumidity", Num(ToNumber(val)))
      [] key = "rhautolevel" ->
            Push([c EXCEPT !.targetHumidity = ToNumber(val)],
                 "TargetHumidity", Num(ToNumber(val)))
      [] key = "mode" ->
            [c EXCEPT !.mode = ToNumber(val), !.modeWriter = "report"]
      [] key = "suspend" /\ v = 1 ->
            LET st == IF ToBoolean(val) THEN IDLE ELSE HUMIDIFYING IN
            Push([c EXCEPT !.humidifierState = st],
                 "CurrentHumidifierDehumidifierState", Num(st))
      [] OTHER -> c

RECURSIVE ForEachKey(_, _, _, _)
ForEachKey(v, c, reported, i) ==
    IF i > Len(KeyOrder) THEN c
    ELSE LET key == KeyOrder[i] IN
         ForEachKey(v,
                    IF reported[key] # Undef
                    THEN HandleKey(v, c, key, reported[key]) ELSE c,
                    reported, i + 1)

\* what the listener throws: JSON.parse (line 98 / 285) on text that is not
\* JSON, Object.keys (line 101 / 288) on a missing reported payload
Raises(msg) ==
    IF msg.shape = "malformed" THEN "SyntaxError"
    ELSE IF Accepted(msg) /\ msg.shape = "noreported" THEN "TypeError"
    ELSE "none"

\* the listener as a function of the instance's fields
Listener(v, c, msg) ==
    IF Raises(msg) # "none" THEN c
    ELSE IF Accepted(msg) THEN ForEachKey(v, c, msg.reported, 1) ELSE c

\* the device's word after msg: an accepted report replaces it for the keys it carries
SaidAfter(v, said, msg) ==
    IF /\ msg.shape = "object"
       /\ msg.devicesn = OwnSn
       /\ msg.method \in {"control-report", "control-reply", "report"}
    THEN LET r == msg.reported IN
         [on |-> (IF r.poweron # Undef THEN Truthy(r.poweron) ELSE said.on),
          currentHumidity |-> (IF r.rh # Undef THEN AsNumber(r.rh)
                               ELSE said.currentHumidity),
          targetHumidity |-> (IF r.rhautolevel # Undef THEN AsNumber(r.rhautolevel)
                              ELSE said.targetHumidity),
          suspend |-> (IF v = 1 /\ r.suspend # Undef THEN Truthy(r.suspend)
                       ELSE said.suspend)]
    ELSE said

\* an accepted report with a mode key starts a new count of {mode: 1} calls
ModeCallsAfter(n, msg) ==
    IF /\ msg.shape = "object"
       /\ msg.devicesn = OwnSn
       /\ msg.method \in {"control-report", "control-reply", "report"}
       /\ msg.reported.mode # Undef
    THEN 0 ELSE n

Fields == [on |-> on, currentHumidity |-> currentHumidity,
           targetHumidity |-> targetHumidity, mode |-> mode,
           humidifierState |-> humidifierState,
           pushed |-> pushed, pushCount |-> NoCount, modeWriter |-> modeWriter]

onMessage(msg) ==
    LET c == Listener(variant, Fields, msg) IN
    /\ pc = "ready" /\ pc' = "returned"
    /\ on' = c.on
    /\ currentHumidity' = c.currentHumidity
    /\ targetHumidity' = c.targetHumidity
    /\ mode' = c.mode
    /\ humidifierState' = c.humidifierState
    /\ pushed' = c.pushed
    /\ pushCount' = c.pushCount
    /\ modeWriter' = c.modeWriter
    /\ calls' = <<>>
    /\ raised' = Raises(msg)
    /\ modeCalls' = ModeCallsAfter(modeCalls, msg)
    /\ deviceSaid' = SaidAfter(variant, deviceSaid, msg)
    /\ last' = Hist("message", Undef, 0, NoSnapshot, msg, Cache)
    /\ UNCHANGED variant

----------------------------------------------------------------------------
(* The operation returns to the host's event loop: what it did is no longer
   recorded, the instance's fields stay *)

Return ==
    /\ pc = "returned" /\ pc' = "ready"
    /\ calls' = <<>>
    /\ pushCount' = NoCount
    /\ last' = NoHist
    /\ raised' = "none"
    /\ UNCHANGED <<variant, on, currentHumidity, targetHumidity, mode,
                   humidifierState, pushed, modeWriter, modeCalls, deviceSaid>>

----------------------------------------------------------------------------
Next ==
    \/ \E value \in ActiveInputs : setActive(value)
    \/ \E twice \in HumidityInputs : setTargetRelativeHumidity(twice)
    \/ setTargetHumidifierDehumidifierState
    \/ \E msg \in Messages : onMessage(msg)
    \/ Return

Spec == Init /\ [][Next]_vars

----------------------------------------------------------------------------
(* Vocabulary of the properties *)

Ran(op) == pc = "returned" /\ last.op = op

\* the cached fields are those the operation started with
CachedUnchanged ==
    /\ on = last.pre.on
    /\ currentHumidity = last.pre.currentHumidity
    /\ targetHumidity = last.pre.targetHumidity
    /\ mode = last.pre.mode
    /\ humidifierState = last.pre.humidifierState

PushTotal == pushCount["Active"] + pushCount["CurrentRelativeHumidity"]
             + pushCount["TargetHumidity"]
             + pushCount["CurrentHumidifierDehumidifierState"]

\* the positions in `calls` of the {mode: 1} calls and of the calls that carry rhautolevel
ModeCallAt  == {i \in DOMAIN calls : calls[i].mode = Num(1)}
LevelCallAt == {i \in DOMAIN calls : calls[i].rhautolevel # Undef}

\* round(twice/2), half up, stated by its defining inequality r - 1/2 <= v < r + 1/2
Rounded(twice) == CHOOSE r \in -10 .. 130 : 2 * r - 1 <= twice /\ twice < 2 * r + 1

\* the clamp into [30,90], stated by cases
Clamped(r) == IF r < 30 THEN 30 ELSE IF r > 90 THEN 90 ELSE r

----------------------------------------------------------------------------
(* C1: every setTargetRelativeHumidity(v) issues a {mode: 1} control call
   exactly when the cached mode was not 1 at the call, issues it before the
   rhautolevel call, and issues exactly one control call carrying
   rhautolevel, whose value is the clamped v. *)
C1_SetTargetCalls ==
    Ran("setTargetRelativeHumidity") =>
        /\ (ModeCallAt # {}) <=> (last.pre.mode # 1)
        /\ Cardinality(ModeCallAt) <= 1
        /\ Cardinality(LevelCallAt) = 1
        /\ \A i \in ModeCallAt, j \in LevelCallAt : i < j
        /\ \A j \in LevelCallAt :
              calls[j].rhautolevel = Num(Clamped(Rounded(last.twice)))
        /\ Len(calls) = Cardinality(ModeCallAt) + 1

C1_Witness ==
    /\ Ran("setTargetRelativeHumidity")
    /\ last.pre.mode = 2
    /\ Len(calls) = 2
    /\ calls[1].mode = Num(1)
    /\ calls[2].rhautolevel = Num(51)

(* C2: for inputs below 30, inside [30,90] and above 90, the rhautolevel sent
   by setTargetRelativeHumidity(v) is min(90, max(30, round(v))), lies in
   [30,90], and the min-of-max clamp of line 160 and the max-of-min clamp of
   line 336 give the same value. *)
C2_ClampedLevel ==
    Ran("setTargetRelativeHumidity") =>
        LET r == MathRound(last.twice) IN
        /\ r = Rounded(last.twice)
        /\ \A j \in LevelCallAt :
              /\ calls[j].rhautolevel.t = "num"
              /\ calls[j].rhautolevel.n = Clamped(r)
              /\ calls[j].rhautolevel.n \in 30 .. 90
        /\ ClampFirst(r) = ClampSecond(r)
        /\ ClampFirst(r) = Clamped(r)

C2_Witness ==
    /\ Ran("setTargetRelativeHumidity")
    /\ variant = 2
    /\ last.twice = 181
    /\ \E j \in LevelCallAt : calls[j].rhautolevel = Num(90)

(* C3: a message whose devicesn is not the accessory's serial number, or
   whose method is none of control-report, control-reply, report, changes no
   cached field and pushes no value to any characteristic, whatever its
   reported payload holds. *)
C3_RejectedMessageNoEffect ==
    (Ran("message")
       /\ (last.msg.devicesn # OwnSn
           \/ last.msg.method \notin {"control-report", "control-reply", "report"}))
    => /\ CachedUnchanged
       /\ pushed = last.pre.pushed
       /\ PushTotal = 0

C3_Witness ==
    /\ Ran("message")
    /\ last.msg.devicesn = OtherSn
    /\ last.msg.method = "report"
    /\ last.msg.reported.poweron = Bool(TRUE)
    /\ last.msg.reported.mode = Num(0)
    /\ ~on
    /\ mode = 1

(* C4: setActive(desired) issues one control call {poweron: desired} when
   desired differs from the cached on and none when they are equal; it leaves
   every cached field as it was, and the cached on (what getActive returns)
   changes only when an accepted report carrying poweron is delivered. *)
C4_SetActiveState ==
    Ran("setActive") =>
        LET desired == Truthy(last.value) IN
        /\ Len(calls) = (IF desired # last.pre.on THEN 1 ELSE 0)
        /\ \A i \in DOMAIN calls :
              calls[i] = [mode |-> Undef, rhautolevel |-> Undef,
                          poweron |-> Bool(desired)]
        /\ CachedUnchanged
        /\ getActive = last.pre.on
        /\ pushed = last.pre.pushed
        /\ PushTotal = 0

C4_OnChangesOnlyByReport ==
    (on' # on) =>
        /\ last'.op = "message"
        /\ last'.msg.devicesn = OwnSn
        /\ last'.msg.method \in {"control-report", "control-reply", "report"}
        /\ last'.msg.reported.poweron # Undef

C4_SetActive == []C4_SetActiveState /\ [][C4_OnChangesOnlyByReport]_vars

C4_Witness ==
    /\ Ran("setActive")
    /\ last.value = Num(1)
    /\ ~last.pre.on
    /\ ~on
    /\ calls = <<[mode |-> Undef, rhautolevel |-> Undef, poweron |-> Bool(TRUE)]>>

(* C5: in every reachable state getCurrentHumidifierDehumidifierState()
   returns INACTIVE when the cached on is false, whatever currentHumidity,
   targetHumidity and the cached humidifierState are. *)
C5_OffIsInactive ==
    (~on) => getCurrentHumidifierDehumidifierState = 0

C5_Witness ==
    /\ Ran("message")
    /\ ~on
    /\ variant = 2
    /\ currentHumidity < targetHumidity
    /\ last.msg.reported.rhautolevel = Num(95)

(* C6: an accepted report whose payload contains poweron = b sets the cached
   on to Boolean(b) and pushes that value to the Active characteristic exactly
   once. *)
C6_PoweronReport ==
    (Ran("message")
       /\ last.msg.devicesn = OwnSn
       /\ last.msg.method \in {"control-report", "control-reply", "report"}
       /\ last.msg.reported.poweron # Undef)
    => /\ on = Truthy(last.msg.reported.poweron)
       /\ pushCount["Active"] = 1
       /\ pushed["Active"] = Bool(Truthy(last.msg.reported.poweron))

C6_Witness ==
    /\ Ran("message")
    /\ last.msg.devicesn = OwnSn
    /\ last.msg.method = "control-report"
    /\ last.msg.reported.poweron = Bool(TRUE)
    /\ ~last.pre.on
    /\ on
    /\ pushCount["Active"] = 1
    /\ pushed["Active"] = Bool(TRUE)

(* C7: delivering a message a second time right after it was delivered leaves
   the cached fields and the last pushed values as the first delivery left
   them. *)
C7_Idempotent ==
    Ran("message") =>
        LET again == Listener(variant, Fields, last.msg) IN
        /\ again.on = on
        /\ again.currentHumidity = currentHumidity
        /\ again.targetHumidity = targetHumidity
        /\ again.mode = mode
        /\ again.humidifierState = humidifierState
        /\ again.pushed = pushed

C7_Witness ==
    /\ Ran("message")
    /\ last.msg.devicesn = OwnSn
    /\ last.msg.method = "report"
    /\ last.msg.reported.poweron = Bool(TRUE)
    /\ last.msg.reported.rh = Num(70)
    /\ ~last.pre.on
    /\ last.pre.currentHumidity = 20
    /\ on
    /\ currentHumidity = 70

\* the report of the last operation passed the filter
AcceptedReport ==
    /\ Ran("message")
    /\ last.msg.devicesn = OwnSn
    /\ last.msg.method \in {"control-report", "control-reply", "report"}

Rep(k) == last.msg.reported[k]

\* key k of the report was handled: field has the value new and char was given it once
Written(field, new, char, shown) ==
    field = new /\ pushCount[char] = 1 /\ pushed[char] = shown

\* key k was not handled: field and characteristic are as before
Kept(field, old, char) ==
    field = old /\ pushCount[char] = 0 /\ pushed[char] = last.pre.pushed[char]

\* what the report does to the fields that have a characteristic
C8_FieldsWithCharacteristic ==
    /\ IF Rep("poweron") # Undef
       THEN Written(on, Truthy(Rep("poweron")), "Active", Bool(Truthy(Rep("poweron"))))
       ELSE Kept(on, last.pre.on, "Active")
    /\ IF Rep("rh") # Undef
       THEN Written(currentHumidity, AsNumber(Rep("rh")),
                    "CurrentRelativeHumidity", Num(AsNumber(Rep("rh"))))
       ELSE Kept(currentHumidity, last.pre.currentHumidity, "CurrentRelativeHumidity")
    /\ IF Rep("rhautolevel") # Undef
       THEN Written(targetHumidity, AsNumber(Rep("rhautolevel")),
                    "TargetHumidity", Num(AsNumber(Rep("rhautolevel"))))
       ELSE Kept(targetHumidity, last.pre.targetHumidity, "TargetHumidity")
    /\ IF Rep("suspend") # Undef /\ variant = 1
       THEN LET st == IF Truthy(Rep("suspend")) THEN 1 ELSE 2 IN
            Written(humidifierState, st, "CurrentHumidifierDehumidifierState", Num(st))
       ELSE Kept(humidifierState, last.pre.humidifierState,
                 "CurrentHumidifierDehumidifierState")

C8_ModeField ==
    mode = (IF Rep("mode") # Undef THEN AsNumber(Rep("mode")) ELSE last.pre.mode)

\* the keys the claim lists
C8_ListedKeys ==
    {"poweron", "rh", "rhautolevel", "mode"} \cup (IF variant = 1 THEN {"suspend"} ELSE {})

(* C8 as stated: for an accepted report every listed key (poweron, rh,
   rhautolevel, mode, and suspend in the first variant) that is present
   updates its cached field and pushes the new value to a characteristic, so
   the report makes one push per listed key present; absent keys and other
   keys change nothing and push nothing. *)
C8_EveryListedKeyPushes ==
    AcceptedReport =>
        /\ C8_FieldsWithCharacteristic
        /\ C8_ModeField
        /\ PushTotal = Cardinality(Present(last.msg.reported) \cap C8_ListedKeys)

(* C8 amended: as stated for poweron, rh, rhautolevel (and suspend in the
   first variant); a present mode key updates the cached mode and pushes
   nothing, there being no characteristic for the mode. *)
C8_ReportEffect ==
    AcceptedReport =>
        /\ C8_FieldsWithCharacteristic
        /\ C8_ModeField
        /\ PushTotal = Cardinality(Present(last.msg.reported)
                                   \cap (C8_ListedKeys \ {"mode"}))

C8_Witness ==
    /\ AcceptedReport
    /\ Rep("mode") = Num(2)
    /\ Rep("rh") = Num(70)
    /\ last.pre.mode = 1
    /\ last.pre.currentHumidity = 0
    /\ mode = 2
    /\ currentHumidity = 70
    /\ PushTotal = 1

\* the rhautolevel the device supplied in the snapshot, 50 when it has none
SnapshotLevel ==
    IF last.snap.rhautolevel \in {Undef, Null} THEN 50
    ELSE AsNumber(last.snap.rhautolevel)

(* C9 as stated: in every reachable state getTargetRelativeHumidity() lies
   in [30,90]. *)
C9_TargetAlwaysInRange ==
    getTargetRelativeHumidity \in 30 .. 90

(* C9 amended: the cached targetHumidity is a copy of what the device
   supplied and is not clamped: after construction it is Number() of the
   snapshot's rhautolevel (50 when absent), after an accepted report carrying
   rhautolevel it is Number() of the reported value, and no other operation
   writes it; the clamp to [30,90] applies to the rhautolevel that
   setTargetRelativeHumidity sends, not to the cached field. *)
C9_TargetMirrorsDevice ==
    /\ Ran("constructor") => getTargetRelativeHumidity = SnapshotLevel
    /\ (AcceptedReport /\ Rep("rhautolevel") # Undef)
          => getTargetRelativeHumidity = AsNumber(Rep("rhautolevel"))
    /\ (pc = "returned" /\ last.op # "constructor"
          /\ ~(AcceptedReport /\ Rep("rhautolevel") # Undef))
          => getTargetRelativeHumidity = last.pre.targetHumidity
    /\ Ran("setTargetRelativeHumidity")
          => \A j \in LevelCallAt : calls[j].rhautolevel.n \in 30 .. 90
    /\ pc = "ready" => last.op = "none"

C9_Witness ==
    /\ AcceptedReport
    /\ Rep("rhautolevel") = Num(95)
    /\ last.pre.targetHumidity = 20
    /\ getTargetRelativeHumidity = 95

(* C10: the cached mode is 1 right after construction with any snapshot, a
   {mode: 1} control call being issued during construction exactly when the
   snapshot's mode (1 when absent) is not 1; it is 1 right after every
   setTargetRelativeHumidity; and whenever it is not 1, the last write of it
   was by an accepted report carrying a mode key. *)
C10_ModePinned ==
    /\ Ran("constructor") =>
          /\ mode = 1
          /\ (ModeCallAt # {}) <=> (last.snap.mode \notin {Undef, Null, Num(1)})
          /\ Len(calls) = Cardinality(ModeCallAt)
    /\ Ran("setTargetRelativeHumidity") => mode = 1
    /\ (mode # 1) => modeWriter = "report"
    /\ (mode # 1 /\ Ran("message")) =>
          \/ (AcceptedReport /\ Rep("mode") \notin {Undef, Num(1)})
          \/ (mode = last.pre.mode /\ (~AcceptedReport \/ Rep("mode") = Undef))
    /\ (mode # 1 /\ pc = "returned") => last.op # "constructor"
                                           /\ last.op # "setTargetRelativeHumidity"

C10_Witness ==
    /\ Ran("setTargetRelativeHumidity")
    /\ last.pre.mode = 2
    /\ mode = 1
    /\ modeWriter = "setTargetRelativeHumidity"
    /\ ModeCallAt = {1}

(* C11: a malformed or partial inbound message (text that is not JSON, or a
   message with the accessory's serial number and an accepted method but no
   reported payload) is absorbed by the listener without raising an error,
   and leaves every cached field unchanged. *)
C11_MalformedAbsorbed ==
    (Ran("message")
       /\ (\/ last.msg.shape = "malformed"
           \/ /\ last.msg.shape = "noreported"
              /\ last.msg.devicesn = OwnSn
              /\ last.msg.method \in {"control-report", "control-reply", "report"}))
    => /\ raised = "none"
       /\ CachedUnchanged

(* C12: last report wins and no setter interferes: the cached on,
   currentHumidity and targetHumidity are what the most recent accepted report
   carrying poweron, rh, rhautolevel said (the constructor's snapshot or
   default value if there was none), whatever set calls were made; after
   setTargetRelativeHumidity(v) getTargetRelativeHumidity() still returns the
   value from before the call. *)
C12_LastReportWins ==
    /\ getActive = deviceSaid.on
    /\ getCurrentRelativeHumidity = deviceSaid.currentHumidity
    /\ getTargetRelativeHumidity = deviceSaid.targetHumidity
    /\ Ran("setTargetRelativeHumidity")
          => getTargetRelativeHumidity = last.pre.targetHumidity

C12_Witness ==
    /\ Ran("setTargetRelativeHumidity")
    /\ last.twice = 101
    /\ \E j \in LevelCallAt : calls[j].rhautolevel = Num(51)
    /\ deviceSaid.targetHumidity = 95
    /\ getTargetRelativeHumidity = 95
    /\ on

(* C13: while the cached on is true getCurrentHumidifierDehumidifierState()
   returns IDLE or HUMIDIFYING, never INACTIVE: in the first variant IDLE
   exactly when the latest suspend information (last accepted report's
   suspend, else the snapshot's, else the IDLE default) is truthy; in the
   second variant HUMIDIFYING exactly when currentHumidity < targetHumidity. *)
C13_OnStates ==
    on =>
        /\ getCurrentHumidifierDehumidifierState \in {1, 2}
        /\ variant = 1 =>
              ((getCurrentHumidifierDehumidifierState = 1) <=> deviceSaid.suspend)
        /\ variant = 2 =>
              ((getCurrentHumidifierDehumidifierState = 2)
                 <=> (currentHumidity < targetHumidity))

C13_Witness ==
    /\ Ran("message")
    /\ variant = 1
    /\ on
    /\ last.msg.devicesn = OwnSn
    /\ last.msg.method = "report"
    /\ last.msg.reported.suspend = Bool(FALSE)
    /\ last.pre.humidifierState = 1
    /\ getCurrentHumidifierDehumidifierState = 2

(* C14: in the second variant every setTargetRelativeHumidity call sends
   rhautolevel and poweron: true together in one control call, also when the
   cached on is false, and leaves the cached on unchanged; in the first
   variant the rhautolevel call carries no poweron. *)
C14_LevelCallPower ==
    Ran("setTargetRelativeHumidity") =>
        /\ Cardinality(LevelCallAt) = 1
        /\ \A j \in LevelCallAt :
              /\ calls[j].poweron = (IF variant = 2 THEN Bool(TRUE) ELSE Undef)
              /\ calls[j].mode = Undef
        /\ \A i \in DOMAIN calls : i \notin LevelCallAt => calls[i].poweron = Undef
        /\ on = last.pre.on

C14_Witness ==
    /\ Ran("setTargetRelativeHumidity")
    /\ variant = 2
    /\ ~last.pre.on
    /\ ~on
    /\ \E j \in LevelCallAt :
          calls[j].poweron = Bool(TRUE) /\ calls[j].rhautolevel = Num(30)

(* C15: in the first variant the value most recently pushed to the
   CurrentHumidifierDehumidifierState characteristic equals what
   getCurrentHumidifierDehumidifierState() returns in the same state. *)
C15_PushedStateMatchesGetter ==
    variant = 1 =>
        pushed["CurrentHumidifierDehumidifierState"]
            = Num(getCurrentHumidifierDehumidifierState)

(* C16: at most one {mode: 1} control call is issued between two consecutive
   accepted reports carrying a mode key, and between construction and the
   first such report, however many setTargetRelativeHumidity calls occur in
   between. *)
C16_OneModeCallPerInterval ==
    modeCalls <= 1

C16_Witness ==
    /\ Ran("setTargetRelativeHumidity")
    /\ modeCalls = 1
    /\ modeWriter = "setTargetRelativeHumidity"
    /\ last.pre.mode = 1
    /\ ModeCallAt = {}

(* C17: for the Active, CurrentRelativeHumidity and target-humidity
   characteristics, once a value has been pushed, the value pushed last
   equals the cached on, currentHumidity, targetHumidity. *)
C17_PushedMatchesCache ==
    /\ pushed["Active"] # Undef => pushed["Active"] = Bool(getActive)
    /\ pushed["CurrentRelativeHumidity"] # Undef
          => pushed["CurrentRelativeHumidity"] = Num(getCurrentRelativeHumidity)
    /\ pushed["TargetHumidity"] # Undef
          => pushed["TargetHumidity"] = Num(getTargetRelativeHumidity)

C17_Witness ==
    /\ Ran("setTargetRelativeHumidity")
    /\ variant = 2
    /\ pushed["TargetHumidity"] = Num(95)
    /\ pushed["CurrentRelativeHumidity"] = Num(70)
    /\ pushed["Active"] = Bool(FALSE)
    /\ \E j \in LevelCallAt : calls[j].rhautolevel = Num(90)

====
